---- MODULE Spec2Model ----
(***************************************************************************)
(* Model of Analysis/software/filter.py: ingestion of the annotated        *)
(* documents into the three corpus sequences, loading of the reference     *)
(* word lists, and the occurrence search that fills the counts table and   *)
(* the concordance (KWIC) table.                                           *)
(*                                                                         *)
(* Python strings are sequences of one-character strings, so that strip,   *)
(* split, join and the substring test are computed and not assumed.        *)
(* Python indices are 0-based; TLA+ sequences are 1-based.                 *)
(***************************************************************************)
EXTENDS Integers, Sequences, FiniteSets, TLC

\* ---------------------------------------------------------------- bounds

\* Number of XML files os.listdir may yield.
MaxFiles == 2
\* Total number of <w> elements over all documents.
MaxCorpus == 3
\* Total number of lines over all reference word-list files.
MaxLines == 2
\* Largest multi-word window radius tried for WINDOW_MULTI.
MaxW == 2
\* The context radius KWIC_WINDOW, scaled down from the 20 of the script so
\* that a corpus of MaxCorpus tokens has contexts the radius cuts short.
SmallK == 1

\* ------------------------------------------------------- string helpers

Max(a, b) == IF a >= b THEN a ELSE b
Min(a, b) == IF a <= b THEN a ELSE b

\* Characters str.strip() and str.split() treat as whitespace.
WS == {" ", "\t", "\n"}

\* Start and stop of a Python slice s[lo:hi] once negative values and
\* values past the end are resolved against the length.
SliceBound(n, len) == IF n < 0 THEN Max(0, len + n) ELSE Min(n, len)

\* Python s[lo:hi], 0-based, hi exclusive, never raising.
Slice(s, lo, hi) ==
    LET a == SliceBound(lo, Len(s))
        b == SliceBound(hi, Len(s))
    IN  IF a >= b THEN <<>> ELSE SubSeq(s, a + 1, b)

\* Python s[i] for i >= 0: the element, or IndexError past the end.
IndexError == <<"IndexError">>
Index(s, i) == IF i < Len(s) THEN s[i + 1] ELSE IndexError

\* Python `x in seq` for a list, and `c in s` for a one-character needle.
In(x, seq) == \E n \in DOMAIN seq : seq[n] = x

\* str.strip(): drop leading and trailing whitespace.
Strip(s) ==
    LET keep == {n \in DOMAIN s : s[n] \notin WS}
    IN  IF keep = {} THEN <<>>
        ELSE SubSeq(s, CHOOSE n \in keep : \A m \in keep : n <= m,
                       CHOOSE n \in keep : \A m \in keep : n >= m)

\* str.split() without argument: the maximal runs of non-whitespace.
RECURSIVE SplitFrom(_, _)
SplitFrom(s, n) ==
    IF n > Len(s) THEN <<>>
    ELSE IF s[n] \in WS THEN SplitFrom(s, n + 1)
    ELSE LET e == CHOOSE m \in n..Len(s) :
                      /\ \A q \in n..m : s[q] \notin WS
                      /\ (m = Len(s) \/ s[m + 1] \in WS)
         IN  <<SubSeq(s, n, e)>> \o SplitFrom(s, e + 1)

Split(s) == SplitFrom(s, 1)

\* s.split(sep)[0]: the part of s before the first sep, all of s without one.
FirstField(s, sep) ==
    LET at == {n \in DOMAIN s : s[n] = sep}
    IN  IF at = {} THEN s
        ELSE SubSeq(s, 1, (CHOOSE n \in at : \A m \in at : n <= m) - 1)

\* " ".join(seq)
RECURSIVE Join(_)
Join(seq) ==
    IF seq = <<>> THEN <<>>
    ELSE IF Len(seq) = 1 THEN seq[1]
    ELSE seq[1] \o <<" ">> \o Join(Tail(seq))

\* Counter(seq): each element that occurs, with its number of occurrences.
Counter(seq) ==
    [x \in {seq[n] : n \in DOMAIN seq} |->
        Cardinality({n \in DOMAIN seq : seq[n] = x})]

\* counter[x]: a Counter answers 0 for a key it does not hold.
Lookup(counter, x) == IF x \in DOMAIN counter THEN counter[x] ELSE 0

\* The indices 0..len(seq)-1 in ascending order, as range() and enumerate()
\* visit them.
Range0(seq) == [n \in 1..Len(seq) |-> n - 1]

\* ------------------------------------------------------------ the inputs

UNK == <<"U", "N", "K">>

\* The <w> elements a document may hold: the text of txm:form, of the
\* #frlemma annotation and of the #frpos annotation; <<>> is an element
\* that is absent or has no text.
WElems ==
    { [form |-> <<"A">>,      lemma |-> <<"a">>, pos |-> <<"N">>],
      [form |-> <<"b">>,      lemma |-> <<>>,    pos |-> <<>>],
      [form |-> <<"c", " ">>, lemma |-> <<"c">>, pos |-> <<"V", ":", "p">>] }

\* The lines a reference word-list file may hold.
RawLines ==
    { <<"a">>, <<"a", " ", "c">>, <<" ", "a", " ", "a", "\n">>, <<" ", "\n">> }

\* Sequences over S of length 0..n.
SeqUpTo(S, n) == UNION {[1..m -> S] : m \in 0..n}

\* Base names of WORDLIST_FILES, in order.
WORDLIST_FILES == << "lemmesMotilite", "lemmesTemps" >>

\* -------------------------------------------------------------- the state

VARIABLES
    pc,              \* section of the script being executed
    WINDOW_MULTI,    \* radius of the multi-word window
    KWIC_WINDOW,     \* radius of the concordance context
    xml_files,       \* number of XML files still to process
    file_lemmas,     \* what the last extract call returned
    file_pos,
    file_tokens,
    file_raised,     \* whether the last extract call took its except branch
    all_lemmas,      \* the corpus
    all_pos,
    all_tokens,
    wl_idx,          \* number of word-list files loaded so far
    ref_words,       \* dict list name -> expressions, in insertion order
    list_idx,        \* position of the search in ref_words.items()
    single_idx,      \* single-word expressions of the list already searched
    multi_idx,       \* multi-word expressions of the list already searched
    results_counts,  \* the counts table
    results_kwic,    \* the concordance table
    kwic_i           \* history: the corpus index i each concordance line was built at

vars == << pc, WINDOW_MULTI, KWIC_WINDOW, xml_files, file_lemmas, file_pos,
           file_tokens, file_raised, all_lemmas, all_pos, all_tokens, wl_idx,
           ref_words, list_idx, single_idx, multi_idx, results_counts,
           results_kwic, kwic_i >>

config == << WINDOW_MULTI, KWIC_WINDOW >>
extracted == << xml_files, file_lemmas, file_pos, file_tokens, file_raised >>
corpus == << all_lemmas, all_pos, all_tokens >>
lists == << wl_idx, ref_words >>
cursor == << list_idx, single_idx, multi_idx >>
results == << results_counts, results_kwic, kwic_i >>

\* The state when the script starts. The two radii are module constants of
\* the script (3 and 20); the model runs it for every window radius
\* 0..MaxW and for the context radius SmallK. xml_files is what os.listdir
\* found.
Init ==
    /\ pc = "extract"
    /\ WINDOW_MULTI \in 0..MaxW
    /\ KWIC_WINDOW = SmallK
    /\ xml_files \in 0..MaxFiles
    /\ file_lemmas = <<>> /\ file_pos = <<>> /\ file_tokens = <<>>
    /\ file_raised = FALSE
    /\ all_lemmas = <<>> /\ all_pos = <<>> /\ all_tokens = <<>>
    /\ wl_idx = 0
    /\ ref_words = <<>>
    /\ list_idx = 0 /\ single_idx = 0 /\ multi_idx = 0
    /\ results_counts = <<>> /\ results_kwic = <<>> /\ kwic_i = <<>>

\* ------------------------------------------------------------- ingestion

\* The text of txm:form, stripped, or "" without one.
TokenOf(w) == IF w.form # <<>> THEN Strip(w.form) ELSE <<>>

\* The #frlemma text, stripped, or the token without one.
LemmaOf(w) == IF w.lemma # <<>> THEN Strip(w.lemma) ELSE TokenOf(w)

\* The #frpos text before its first ":", or UNK without one.
PosOf(w) == IF w.pos # <<>> THEN FirstField(w.pos, ":") ELSE UNK

\* Where the try block of an extract call may raise: nowhere, in
\* etree.parse / tree.xpath before the loop (at = 0), or while handling the
\* at-th <w> element, either on reading its form (before tokens.append) or
\* on reading its annotations (after tokens.append, before lemmas.append).
NoRaise == [at |-> -1, stage |-> "none"]
Raises(doc) ==
    {NoRaise} \cup {[at |-> 0, stage |-> "parse"]}
              \cup {[at |-> n, stage |-> s] : n \in 1..Len(doc), s \in {"form", "ana"}}

\* extract_lemmas_and_pos_from_file on a document holding the <w> elements
\* `doc`, with the exception (if any) `exc` raised inside the try block:
\* the three lists as they stand when the function returns.
extract_lemmas_and_pos_from_file(doc, exc) ==
    LET done == IF exc.at = -1 THEN Len(doc) ELSE Max(0, exc.at - 1)
        ntok == IF exc.stage = "ana" THEN done + 1 ELSE done
    IN  [lemmas |-> [n \in 1..done |-> LemmaOf(doc[n])],
         pos    |-> [n \in 1..done |-> PosOf(doc[n])],
         tokens |-> [n \in 1..ntok |-> TokenOf(doc[n])]]

\* One iteration of the loop over xml_files.
ExtractFile ==
    /\ pc = "extract"
    /\ xml_files > 0
    /\ \E doc \in SeqUpTo(WElems, MaxCorpus - Len(all_tokens)) :
       \E exc \in Raises(doc) :
          LET r == extract_lemmas_and_pos_from_file(doc, exc)
          IN  /\ file_lemmas' = r.lemmas
              /\ file_pos' = r.pos
              /\ file_tokens' = r.tokens
              /\ file_raised' = (exc # NoRaise)
              /\ all_lemmas' = all_lemmas \o r.lemmas
              /\ all_pos' = all_pos \o r.pos
              /\ all_tokens' = all_tokens \o r.tokens
    /\ xml_files' = xml_files - 1
    /\ UNCHANGED << pc, config, lists, cursor, results >>

\* The loop over xml_files is exhausted; the statistics and the per-POS
\* files are derived from the corpus, which they leave as it is. The
\* results of the last extract call are not read again and are dropped.
EndExtract ==
    /\ pc = "extract"
    /\ xml_files = 0
    /\ pc' = "load"
    /\ file_lemmas' = <<>> /\ file_pos' = <<>> /\ file_tokens' = <<>>
    /\ file_raised' = FALSE
    /\ UNCHANGED << config, xml_files, corpus, lists, cursor, results >>

\* ------------------------------------------------- reference word lists

\* [line.strip() for line in f if line.strip()]
ReadWords(lines) ==
    LET stripped == [n \in DOMAIN lines |-> Strip(lines[n])]
    IN  SelectSeq(stripped, LAMBDA w : w # <<>>)

\* d[key] = value on a dict kept as the sequence of its items: a new key
\* goes last, a known key keeps its place.
DictSet(d, key, value) ==
    IF \E n \in DOMAIN d : d[n].key = key
    THEN [n \in DOMAIN d |-> IF d[n].key = key THEN [key |-> key, value |-> value]
                                                ELSE d[n]]
    ELSE Append(d, [key |-> key, value |-> value])

\* The first item of d.items() at or after position `from` (0-based) whose
\* expression list is not empty, len(d) without one: an item without
\* expressions runs neither inner loop of the search.
NextListIdx(d, from) ==
    LET later == {n \in from..(Len(d) - 1) : d[n + 1].value # <<>>}
    IN  IF later = {} THEN Len(d)
        ELSE CHOOSE n \in later : \A m \in later : n <= m

\* Number of expressions loaded so far (the model reads at most MaxLines
\* lines over all files).
RECURSIVE Total(_)
Total(d) == IF d = <<>> THEN 0 ELSE Len(Head(d).value) + Total(Tail(d))
LinesRead == Total(ref_words)

\* One iteration of the loop over WORDLIST_FILES. After the last file the
\* search starts at the first list that has an expression; when no list has
\* one the loops of the search add nothing and the empty tables are
\* written out.
LoadWordlist ==
    /\ pc = "load"
    /\ wl_idx < Len(WORDLIST_FILES)
    /\ \E exists \in BOOLEAN :
       \E lines \in SeqUpTo(RawLines, MaxLines - LinesRead) :
          /\ exists \/ lines = <<>>
          /\ ref_words' = DictSet(ref_words, WORDLIST_FILES[wl_idx + 1],
                                  IF exists THEN ReadWords(lines) ELSE <<>>)
    /\ wl_idx' = wl_idx + 1
    /\ IF wl_idx + 1 < Len(WORDLIST_FILES)
       THEN pc' = "load" /\ list_idx' = list_idx
       ELSE /\ list_idx' = NextListIdx(ref_words', 0)
            /\ pc' = IF list_idx' = Len(ref_words') THEN "done" ELSE "search"
    /\ UNCHANGED << config, extracted, corpus, single_idx, multi_idx, results >>

\* ---------------------------------------------------------------- search

\* `" " not in w` and `" " in w`
single_words(words_list) == SelectSeq(words_list, LAMBDA w : ~In(" ", w))
multi_words(words_list) == SelectSeq(words_list, LAMBDA w : In(" ", w))

\* Variant: the window start without its clipping at 0 (a negative start
\* of a slice counts from the end).
WindowStartUnclipped(i, W) == i - W

\* Variant: the window end without the +1 that makes i + W inclusive.
WindowEndExclusive(len, i, W) == Min(len, i + W)

\* start and end of the window around position i
WindowStart(i, W) == Max(0, i - W)
WindowEnd(len, i, W) == Min(len, i + W + 1)

\* window = all_lemmas[start:end]
Window(lemmas, i, W) ==
    Slice(lemmas, WindowStart(i, W), WindowEnd(Len(lemmas), i, W))

\* Variant: any() in place of all().
WindowMatchAny(lemmas, tokens_expr, i, W) ==
    \E n \in DOMAIN tokens_expr : In(tokens_expr[n], Window(lemmas, i, W))

\* all(tok in window for tok in tokens_expr)
WindowMatch(lemmas, tokens_expr, i, W) ==
    \A n \in DOMAIN tokens_expr : In(tokens_expr[n], Window(lemmas, i, W))

\* The positions i of range(len(all_lemmas)), in the order visited, at which
\* the multi-word test succeeds.
MultiMatches(lemmas, tokens_expr, W) ==
    SelectSeq(Range0(lemmas), LAMBDA i : WindowMatch(lemmas, tokens_expr, i, W))

\* Variant: `count += 1` outside the test, once for every position.
MultiCountEvery(lemmas, tokens_expr, W) == Len(lemmas)

\* The value of `count` when the scan of one multi-word expression ends:
\* it is incremented once for each position that matches.
MultiCount(lemmas, tokens_expr, W) == Len(MultiMatches(lemmas, tokens_expr, W))

\* Variant: the corpus visited from its last position to its first.
SingleMatchesReversed(lemmas, word) ==
    LET up == SelectSeq(Range0(lemmas), LAMBDA i : lemmas[i + 1] = word)
    IN  [n \in DOMAIN up |-> up[Len(up) + 1 - n]]

\* The positions i of enumerate(all_lemmas), in the order visited, whose
\* lemma is the word.
SingleMatches(lemmas, word) ==
    SelectSeq(Range0(lemmas), LAMBDA i : lemmas[i + 1] = word)

\* Variant: the frequency table built over the distinct lemmas.
SingleCountDistinct(lemmas, word) ==
    IF In(word, lemmas) THEN 1 ELSE 0

\* count = lemma_counter[word]
SingleCount(lemmas, word) == Lookup(Counter(lemmas), word)

\* First index of the before-context of a line built at i.
BeforeStart(i, K) == Max(0, i - K)

\* Variant: an after-context one token too long.
AfterEndInclusive(i, width, K) == i + width + K + 1

\* Index after the last one of the after-context that follows a hit of
\* `width` tokens starting at i.
AfterEnd(i, width, K) == i + width + K

\* The concordance line of a single-word match at i.
SingleKwic(tokens, word, i, K, list_name) ==
    [lemma  |-> word,
     before |-> Join(Slice(tokens, BeforeStart(i, K), i)),
     hit    |-> Index(tokens, i),
     after  |-> Join(Slice(tokens, i + 1, AfterEnd(i, 1, K))),
     list   |-> list_name]

\* Variant: the hit of a multi-word match taken as one token, as for a
\* single word.
HitEndSingle(i, k) == i + 1

\* Index after the last one of the hit of a multi-word match at i.
HitEnd(i, k) == i + k

\* The concordance line of a multi-word match at i of expression expr.
MultiKwic(tokens, expr, i, K, list_name) ==
    LET k == Len(Split(expr))
    IN  [lemma  |-> expr,
         before |-> Join(Slice(tokens, BeforeStart(i, K), i)),
         hit    |-> Join(Slice(tokens, i, HitEnd(i, k))),
         after  |-> Join(Slice(tokens, i + k, AfterEnd(i, k, K))),
         list   |-> list_name]

\* The list the search is at.
CurList == ref_words[list_idx + 1]

\* The loop control after an expression of the current list is done, si
\* single-word and mi multi-word expressions of the list being searched:
\* the next expression of the list, or the next list that has one, or the
\* end of the search, where the two tables are written out as they stand.
Advance(si, mi) ==
    IF si + mi < Len(CurList.value)
    THEN /\ single_idx' = si /\ multi_idx' = mi
         /\ list_idx' = list_idx /\ pc' = pc
    ELSE /\ single_idx' = 0 /\ multi_idx' = 0
         /\ list_idx' = NextListIdx(ref_words, list_idx + 1)
         /\ pc' = IF list_idx' = Len(ref_words) THEN "done" ELSE "search"

\* One iteration of `for word in single_words`: the count record, then the
\* concordance lines of the word in ascending position.
SingleWord ==
    /\ pc = "search"
    /\ list_idx < Len(ref_words)
    /\ single_idx < Len(single_words(CurList.value))
    /\ LET word == single_words(CurList.value)[single_idx + 1]
           at == SingleMatches(all_lemmas, word)
       IN  /\ results_counts' =
                 Append(results_counts,
                        [list |-> CurList.key, lemma |-> word,
                         count |-> SingleCount(all_lemmas, word)])
           /\ results_kwic' = results_kwic \o
                 [n \in DOMAIN at |->
                     SingleKwic(all_tokens, word, at[n], KWIC_WINDOW, CurList.key)]
           /\ kwic_i' = kwic_i \o at
    /\ Advance(single_idx + 1, multi_idx)
    /\ UNCHANGED << config, extracted, corpus, lists >>

\* One iteration of `for expr in multi_words`: the concordance lines of the
\* expression in ascending position, then its count record.
MultiWord ==
    /\ pc = "search"
    /\ list_idx < Len(ref_words)
    /\ single_idx = Len(single_words(CurList.value))
    /\ multi_idx < Len(multi_words(CurList.value))
    /\ LET expr == multi_words(CurList.value)[multi_idx + 1]
           tokens_expr == Split(expr)
           at == MultiMatches(all_lemmas, tokens_expr, WINDOW_MULTI)
       IN  /\ results_kwic' = results_kwic \o
                 [n \in DOMAIN at |->
                     MultiKwic(all_tokens, expr, at[n], KWIC_WINDOW, CurList.key)]
           /\ kwic_i' = kwic_i \o at
           /\ results_counts' =
                 Append(results_counts,
                        [list |-> CurList.key, lemma |-> expr,
                         count |-> MultiCount(all_lemmas, tokens_expr, WINDOW_MULTI)])
    /\ Advance(single_idx, multi_idx + 1)
    /\ UNCHANGED << config, extracted, corpus, lists >>

Next ==
    \/ ExtractFile
    \/ EndExtract
    \/ LoadWordlist
    \/ SingleWord
    \/ MultiWord

Spec == Init /\ [][Next]_vars

\* ---------------------------------------------------------- the claims

IsMulti(expr) == In(" ", expr)
SingleRecords == {n \in DOMAIN results_counts : ~IsMulti(results_counts[n].lemma)}
MultiRecords == {n \in DOMAIN results_counts : IsMulti(results_counts[n].lemma)}
MultiLines == {n \in DOMAIN results_kwic : IsMulti(results_kwic[n].lemma)}

\* The surface tokens at the 0-based indices lo..hi, joined by spaces.
Surface(lo, hi) == Join([n \in 1..(hi - lo + 1) |-> all_tokens[lo + n]])

\* C1: the count recorded for a single-word expression w is the number of
\* indices i with all_lemmas[i] = w (0 when w does not occur, 0 for the
\* empty corpus).
C1_SingleCountExact ==
    \A n \in SingleRecords :
        results_counts[n].count =
            Cardinality({i \in DOMAIN all_lemmas :
                            all_lemmas[i] = results_counts[n].lemma})

C1_Witness ==
    \E n \in SingleRecords :
        /\ results_counts[n].count = 2
        /\ Len(all_lemmas) = 3

\* The number of positions whose clipped inclusive range
\* [max(0, i-W), min(len-1, i+W)] holds every word of ws.
CoveredPositions(ws, W) ==
    Cardinality({i \in 0..(Len(all_lemmas) - 1) :
        \A j \in DOMAIN ws :
            \E m \in Max(0, i - W)..Min(Len(all_lemmas) - 1, i + W) :
                all_lemmas[m + 1] = ws[j]})

\* C2: the count recorded for a multi-word expression w_1..w_k is the
\* number of positions i such that every w_j occurs at some index of
\* [max(0, i-W), min(len-1, i+W)]; for the corpus [a, b, c] and "a c" it is
\* 1 with W = 1 and 3 with W = 2.
C2_MultiCountWindow ==
    \A n \in MultiRecords :
        LET r == results_counts[n]
        IN  /\ r.count = CoveredPositions(Split(r.lemma), WINDOW_MULTI)
            /\ (all_lemmas = << <<"a">>, <<"b">>, <<"c">> >>
                   /\ r.lemma = <<"a", " ", "c">>)
               => /\ WINDOW_MULTI = 1 => r.count = 1
                  /\ WINDOW_MULTI = 2 => r.count = 3

C2_Witness ==
    /\ all_lemmas = << <<"a">>, <<"b">>, <<"c">> >>
    /\ WINDOW_MULTI = 1
    /\ \E n \in MultiRecords :
          /\ results_counts[n].lemma = <<"a", " ", "c">>
          /\ results_counts[n].count = 1

\* C3: the multi-word count is monotone in the window radius: the count
\* recorded with radius W is at least the count any smaller radius gives and
\* at most the count any larger radius gives.
C3_MonotoneInW ==
    \A n \in MultiRecords :
        LET r == results_counts[n]
            ws == Split(r.lemma)
        IN  /\ \A W1 \in 0..WINDOW_MULTI :
                  MultiCount(all_lemmas, ws, W1) <= r.count
            /\ \A W2 \in WINDOW_MULTI..(MaxW + 1) :
                  r.count <= MultiCount(all_lemmas, ws, W2)

C3_Witness ==
    \E n \in MultiRecords :
        /\ WINDOW_MULTI = 2
        /\ MultiCount(all_lemmas, Split(results_counts[n].lemma), 1) = 1
        /\ results_counts[n].count = 3

\* Number of surface tokens the hit of line n starts with: 1 for a single
\* word, the number of words for a multi-word expression.
HitWidth(n) ==
    IF IsMulti(results_kwic[n].lemma) THEN Len(Split(results_kwic[n].lemma)) ELSE 1

\* C4: for every concordance line built at position p with radius K: the
\* before-context is empty at p = 0 and is exactly the surface tokens at
\* [max(0, p-K), p-1]; the after-context is empty at the last position and
\* holds at most K tokens; no surface index outside [0, len) is read.
C4_BoundaryClipping ==
    \A n \in DOMAIN results_kwic :
        LET line == results_kwic[n]
            p == kwic_i[n]
            len == Len(all_tokens)
            first == p + HitWidth(n)
        IN  /\ p = 0 => line.before = <<>>
            /\ p = len - 1 => line.after = <<>>
            /\ p < len
            /\ line.hit # IndexError
            /\ line.before = Surface(Max(0, p - KWIC_WINDOW), p - 1)
            /\ \E m \in 0..KWIC_WINDOW :
                  /\ first + m <= Max(first, len)
                  /\ line.after = Surface(first, first + m - 1)

C4_Witness ==
    \E n \in DOMAIN results_kwic : \E m \in DOMAIN results_kwic :
        /\ Len(all_tokens) = 3
        /\ KWIC_WINDOW = 1
        /\ kwic_i[n] = 2 /\ results_kwic[n].after = <<>>
        /\ Len(results_kwic[n].before) = 1
        /\ kwic_i[m] = 0 /\ results_kwic[m].before = <<>>
        /\ Len(results_kwic[m].after) = 1

\* C5 as stated: the hit of a multi-word line at anchor i is always the k
\* surface tokens i .. i+k-1, and the after-context starts at i+k.
C5_HitAlwaysK ==
    \A n \in MultiLines :
        LET p == kwic_i[n]
            k == HitWidth(n)
        IN  /\ p + k <= Len(all_tokens)
            /\ results_kwic[n].hit = Surface(p, p + k - 1)

\* C5 as amended: the hit of a multi-word line at anchor i is the surface
\* tokens i .. min(i+k, len)-1, whatever the position of the matched words
\* (k tokens unless the corpus ends first), and the after-context is the
\* tokens i+k .. min(i+k+K, len)-1.
C5_HitAtAnchorClipped ==
    \A n \in MultiLines :
        LET p == kwic_i[n]
            k == HitWidth(n)
            len == Len(all_tokens)
        IN  /\ results_kwic[n].hit = Surface(p, Min(p + k, len) - 1)
            /\ results_kwic[n].after =
                  Surface(p + k, Min(p + k + KWIC_WINDOW, len) - 1)

C5_Witness ==
    \E n \in MultiLines :
        /\ results_kwic[n].lemma = <<"a", " ", "c">>
        /\ kwic_i[n] = 1
        /\ all_lemmas = << <<"a">>, <<"b">>, <<"c">> >>
        /\ results_kwic[n].hit = <<"b", " ", "c">>

\* C6 as stated: no two records of the counts table share list name and
\* expression.
C6_OneRecordPerPair ==
    \A m, n \in DOMAIN results_counts :
        (/\ results_counts[m].list = results_counts[n].list
         /\ results_counts[m].lemma = results_counts[n].lemma) => m = n

\* Position of a list name in the order the lists were supplied.
ListPos(name) == CHOOSE n \in DOMAIN WORDLIST_FILES : WORDLIST_FILES[n] = name

\* The indices of the concordance lines a step appends.
NewLines == (Len(results_kwic) + 1)..Len(results_kwic')

\* The indices of the count records a step appends.
NewRecords == (Len(results_counts) + 1)..Len(results_counts')

\* C7: concordance lines are only ever appended; the table lists them by
\* list in the order supplied and, within a list, every line of a
\* single-word expression before every line of a multi-word expression;
\* the lines one expression adds are in strictly ascending corpus position.
C7_DiscoveryOrder ==
    [][ /\ Len(results_kwic') >= Len(results_kwic)
        /\ SubSeq(results_kwic', 1, Len(results_kwic)) = results_kwic
        /\ SubSeq(kwic_i', 1, Len(kwic_i)) = kwic_i
        /\ \A m, n \in DOMAIN results_kwic' :
              m < n =>
                /\ ListPos(results_kwic'[m].list) <= ListPos(results_kwic'[n].list)
                /\ (results_kwic'[m].list = results_kwic'[n].list
                       /\ IsMulti(results_kwic'[m].lemma))
                   => IsMulti(results_kwic'[n].lemma)
        /\ \A m, n \in NewLines :
              m < n =>
                /\ kwic_i'[m] < kwic_i'[n]
                /\ results_kwic'[m].lemma = results_kwic'[n].lemma
                /\ results_kwic'[m].list = results_kwic'[n].list
      ]_vars

C7_Witness ==
    \E d \in DOMAIN ref_words :
        /\ Len(ref_words[d].value) = 2
        /\ IsMulti(ref_words[d].value[1])
        /\ ~IsMulti(ref_words[d].value[2])
        /\ \E l, m, n \in DOMAIN results_kwic :
              /\ l < m /\ m < n
              /\ results_kwic[l].lemma = ref_words[d].value[2]
              /\ results_kwic[m].lemma = ref_words[d].value[2]
              /\ kwic_i[l] < kwic_i[m]
              /\ results_kwic[n].lemma = ref_words[d].value[1]
              /\ results_kwic[l].list = ref_words[d].key
              /\ results_kwic[m].list = ref_words[d].key
              /\ results_kwic[n].list = ref_words[d].key

\* C8 as stated: a document whose processing raised returns three empty
\* sequences, the three returned sequences always have equal length, and
\* the corpus keeps len(lemma) = len(pos) = len(surface).
C8_FailedDocContributesNothing ==
    /\ file_raised =>
          (file_lemmas = <<>> /\ file_pos = <<>> /\ file_tokens = <<>>)
    /\ Len(file_lemmas) = Len(file_pos)
    /\ Len(file_pos) = Len(file_tokens)
    /\ Len(all_lemmas) = Len(all_pos)
    /\ Len(all_pos) = Len(all_tokens)

\* Whether all the words of ws are one and the same word.
OneWord(ws) == \A j \in DOMAIN ws : ws[j] = ws[1]

\* C9 as stated: with W = 0 the count of every expression of k >= 2 words,
\* repeated words included, is 0.
C9_ZeroRadiusNeverMatches ==
    \A n \in MultiRecords :
        WINDOW_MULTI = 0 => results_counts[n].count = 0

\* C9 as amended: with W = 0 the count of an expression of k >= 2 words is
\* 0 when two of its words differ, and is the number of positions holding
\* the word when the expression repeats one word k times.
C9_ZeroRadiusNeedsOneWord ==
    \A n \in MultiRecords :
        LET r == results_counts[n]
            ws == Split(r.lemma)
        IN  WINDOW_MULTI = 0 =>
              /\ Len(ws) >= 2
              /\ r.count = IF OneWord(ws)
                           THEN Cardinality({i \in DOMAIN all_lemmas :
                                               all_lemmas[i] = ws[1]})
                           ELSE 0

C9_Witness ==
    /\ WINDOW_MULTI = 0
    /\ \E m, n \in MultiRecords :
          /\ ~OneWord(Split(results_counts[m].lemma))
          /\ \A j \in DOMAIN Split(results_counts[m].lemma) :
                In(Split(results_counts[m].lemma)[j], all_lemmas)
          /\ results_counts[m].count = 0
          /\ OneWord(Split(results_counts[n].lemma))
          /\ results_counts[n].count = 2

\* C10: every count record appended comes with exactly `count` concordance
\* lines appended while its expression was processed, each carrying the
\* record's list name and expression; a count of 0 adds no line.
C10_CountsMatchLines ==
    [][ \A r \in NewRecords :
          /\ Cardinality(NewLines) = results_counts'[r].count
          /\ \A n \in NewLines :
                /\ results_kwic'[n].list = results_counts'[r].list
                /\ results_kwic'[n].lemma = results_counts'[r].lemma
      ]_vars

C10_Witness ==
    /\ \E n \in SingleRecords : results_counts[n].count = 2
    /\ \E n \in MultiRecords : results_counts[n].count = 0
    /\ Len(results_kwic) = 2

====
